---- MODULE Spec2Model ----
(***************************************************************************)
(* Model of src/vs/workbench/api/common/extHostTerminalShellIntegration.ts *)
(*                                                                         *)
(* ExtHostTerminalShellIntegration   the directory handle -> session       *)
(* InternalTerminalShellIntegration  the per-terminal session              *)
(* InternalTerminalShellExecution    one execution and its data stream     *)
(* ShellExecutionDataStream          the multiplexer feeding the readers   *)
(*                                                                         *)
(* The handlers are written as operators from a state record to a state    *)
(* record, so that a handler that calls another handler is the composition *)
(* of the two; an action commits the record a handler returns.             *)
(***************************************************************************)
EXTENDS Integers, Sequences, FiniteSets, TLC

VARIABLES
    terminals,      \* handles for which getTerminalById returns a terminal
    active,         \* _activeShellIntegrations: handle -> session object (0: no entry)
    integ,          \* the InternalTerminalShellIntegration objects ever constructed
    execs,          \* the InternalTerminalShellExecution objects ever constructed
    readers,        \* the iterables ever returned by read()
    drains,         \* continuations of flush().then(...) not yet run
    events,         \* start and end events raised outward, in order
    changeEvents,   \* onDidChangeTerminalShellIntegration events raised outward
    requests,       \* $executeCommand requests sent to the transport
    pushed,         \* history: the chunks handed to executions before their end, in order
    attach,         \* history: per reader, what was known when read() was called
    lastStart,      \* history: the inputs of the latest shellExecutionStart signal
    lastOp          \* history: the latest operation, where a specification records it

vars == <<terminals, active, integ, execs, readers, drains, events, changeEvents,
          requests, pushed, attach, lastStart, lastOp>>

\* ------------------------------------------------------------------ bounds
\* The objects a run may hold at once (sessions, executions, readers, pending
\* drains, change events and chunks together), per specification.
CorrLoad == 5
StreamLoad == 7
CwdLoad == 6
DirLoad == 4
AttrLoad == 6
IsoLoad == 8
AbandonLoad == 6
EndLoad == 6

\* ------------------------------------------------------------------ values
Undefined == <<>>
Some(x) == <<x>>

Handles == {1, 2}
Low == "Low"
Medium == "Medium"
High == "High"
Confidences == {Low, Medium, High}
Texts == {"ls", "pwd"}
Cwds == {Undefined, Some("file:///u1"), Some("file:///u2")}
ExitCodes == {Undefined, Some(0), Some(1)}
Chunks == {"a", "b"}
EnvKeys == {<<"A">>, <<"B">>, <<"A", "B", "A">>}
EnvValues == {<<"1">>, <<"1", "2">>}

\* ------------------------------------------------------------------ state record
Cur ==
    [terminals |-> terminals, active |-> active, integ |-> integ, execs |-> execs,
     readers |-> readers, drains |-> drains, events |-> events,
     changeEvents |-> changeEvents, requests |-> requests]

Commit(st) ==
    /\ terminals' = st.terminals
    /\ active' = st.active
    /\ integ' = st.integ
    /\ execs' = st.execs
    /\ readers' = st.readers
    /\ drains' = st.drains
    /\ events' = st.events
    /\ changeEvents' = st.changeEvents
    /\ requests' = st.requests

\* new InternalTerminalShellIntegration(terminal, emitter)
NewIntegration(h) ==
    [handle |-> h, activeExecutions |-> <<>>, currentExecution |-> 0,
     env |-> Undefined, cwd |-> Undefined, hasRichCommandDetection |-> FALSE,
     disposed |-> FALSE]

\* new InternalTerminalShellExecution(commandLine, cwd); requested is history:
\* whether executeCommand (and not a start signal) constructed it
NewExecution(commandLine, cwd, requested) ==
    [commandLine |-> commandLine, cwd |-> cwd, dataStream |-> FALSE,
     barrier |-> FALSE, ended |-> FALSE, requested |-> requested]

CommandLine(value, confidence, isTrusted) ==
    [value |-> value, confidence |-> confidence, isTrusted |-> isTrusted]

\* mutant: no fallback
Coalesce_first(a, b) == a

\* cwd ?? this._cwd
Coalesce(a, b) == IF a # Undefined THEN a ELSE b

\* history: the chunks handed to execution e before its end, in order
PushedTo(e) ==
    LET ToE(p) == p.execution = e
        sel == SelectSeq(pushed, ToE)
    IN [i \in 1..Len(sel) |-> sel[i].data]

Last(seq) == seq[Len(seq)]
RemoveAt(seq, i) == SubSeq(seq, 1, i - 1) \o SubSeq(seq, i + 1, Len(seq))

\* ------------------------------------------------------------------ AsyncIterableObject, Barrier
\* A reader is one AsyncIterableObject together with the consumer iterating it:
\* results/state are the iterable's, pos/done the consumer's cursor.
\* new AsyncIterableObject(executor): the executor registers the emitter and waits
\* for the barrier; the iterable completes when the executor returns.
NewIterable(e) ==
    [exec |-> e, stream |-> TRUE, results |-> <<>>, state |-> "Initial",
     pos |-> 0, done |-> FALSE]

\* AsyncIterableObject.EMPTY
EmptyIterable(e) ==
    [exec |-> e, stream |-> FALSE, results |-> <<>>, state |-> "DoneOK",
     pos |-> 0, done |-> FALSE]

\* emitter.emitOne(data): queued unless the iterable has completed
emitOne(rd, data) ==
    IF rd.state = "Initial" THEN [rd EXCEPT !.results = Append(@, data)] ELSE rd

\* barrier.open(): the executor's wait returns and the iterable completes
Resolve(rd) == IF rd.state = "Initial" THEN [rd EXCEPT !.state = "DoneOK"] ELSE rd

\* iterator.next(): the next queued chunk, else the end once the iterable has
\* completed, else it suspends
CanNext(rd) == ~rd.done /\ (rd.pos < Len(rd.results) \/ rd.state = "DoneOK")
next(rd) ==
    IF rd.pos < Len(rd.results) THEN [rd EXCEPT !.pos = @ + 1]
    ELSE [rd EXCEPT !.done = TRUE]

\* what the consumer of a reader has been given so far
Produced(rd) == SubSeq(rd.results, 1, rd.pos)

\* iterable.toPromise() has resolved: the sequence was consumed to its end
Drained(st, r) == st.readers[r].done

\* ------------------------------------------------------------------ ShellExecutionDataStream
\* this._iterables / this._emitters of the stream of execution e
Iterables(st, e) ==
    {r \in 1..Len(st.readers) : st.readers[r].exec = e /\ st.readers[r].stream}

\* mutant: a new reader is first given what was emitted before it attached
DataStream_createIterable_replay(st, e) ==
    [st EXCEPT !.execs[e].barrier = TRUE,
               !.readers = Append(@, [NewIterable(e) EXCEPT !.results = PushedTo(e)])]

DataStream_createIterable(st, e) ==
    [st EXCEPT !.execs[e].barrier = TRUE,
               !.readers = Append(@, NewIterable(e))]

\* mutant: the loop over the emitters stops after the first one
DataStream_emitData_first(st, e, data) ==
    [st EXCEPT !.readers =
        [r \in 1..Len(st.readers) |->
            IF r \in Iterables(st, e) /\ \A q \in Iterables(st, e) : r <= q
            THEN emitOne(st.readers[r], data)
            ELSE st.readers[r]]]

\* mutant: every reader of every stream is given the chunk
DataStream_emitData_all(st, e, data) ==
    [st EXCEPT !.readers =
        [r \in 1..Len(st.readers) |->
            IF st.readers[r].stream THEN emitOne(st.readers[r], data)
            ELSE st.readers[r]]]

DataStream_emitData(st, e, data) ==
    [st EXCEPT !.readers =
        [r \in 1..Len(st.readers) |->
            IF r \in Iterables(st, e) THEN emitOne(st.readers[r], data)
            ELSE st.readers[r]]]

\* mutant: the barrier is dropped without being opened
DataStream_endExecution_unopened(st, e) ==
    IF st.execs[e].barrier THEN [st EXCEPT !.execs[e].barrier = FALSE] ELSE st

DataStream_endExecution(st, e) ==
    IF st.execs[e].barrier
    THEN [st EXCEPT !.execs[e].barrier = FALSE,
                    !.readers =
                        [r \in 1..Len(st.readers) |->
                            IF r \in Iterables(st, e) THEN Resolve(st.readers[r])
                            ELSE st.readers[r]]]
    ELSE st

\* the iterables whose completion flush() awaits
DataStream_flush(st, e) == Iterables(st, e)

\* ------------------------------------------------------------------ InternalTerminalShellExecution
\* mutant: no look at _ended, a stream is made whenever there is none
createDataStream_unguarded(st, e) ==
    IF ~st.execs[e].dataStream
    THEN DataStream_createIterable([st EXCEPT !.execs[e].dataStream = TRUE], e)
    ELSE DataStream_createIterable(st, e)

createDataStream(st, e) ==
    IF ~st.execs[e].dataStream
    THEN IF st.execs[e].ended
         THEN [st EXCEPT !.readers = Append(@, EmptyIterable(e))]
         ELSE DataStream_createIterable([st EXCEPT !.execs[e].dataStream = TRUE], e)
    ELSE DataStream_createIterable(st, e)

Execution_emitData(st, e, data) ==
    IF st.execs[e].dataStream THEN DataStream_emitData(st, e, data) ELSE st

\* mutant: the command line given at the end is not stored
Execution_endExecution_unrefined(st, e, commandLine) ==
    LET st2 == IF st.execs[e].dataStream THEN DataStream_endExecution(st, e) ELSE st
    IN [st2 EXCEPT !.execs[e].dataStream = FALSE, !.execs[e].ended = TRUE]

Execution_endExecution(st, e, commandLine) ==
    LET st1 == IF commandLine # Undefined
               THEN [st EXCEPT !.execs[e].commandLine = commandLine[1]]
               ELSE st
        st2 == IF st1.execs[e].dataStream THEN DataStream_endExecution(st1, e) ELSE st1
    IN [st2 EXCEPT !.execs[e].dataStream = FALSE, !.execs[e].ended = TRUE]

\* mutant: flush() awaits the iterables of the stream the execution had
Execution_flush_kept(st, e) == DataStream_flush(st, e)

Execution_flush(st, e) ==
    IF st.execs[e].dataStream THEN DataStream_flush(st, e) ELSE {}

\* ------------------------------------------------------------------ InternalTerminalShellIntegration
StartEvent(h, e) == [type |-> "start", terminal |-> h, execution |-> e, exitCode |-> Undefined]
EndEvent(h, e, exitCode) == [type |-> "end", terminal |-> h, execution |-> e, exitCode |-> exitCode]

\* this._onDidRequestEndExecution.fire(e): the session's emitter and the listener
\* that forwards to the directory's emitter are disposed with the session
fireRequestEndExecution(st, s, e, exitCode) ==
    IF st.integ[s].disposed THEN st
    ELSE [st EXCEPT !.events = Append(@, EndEvent(st.integ[s].handle, e, exitCode))]

\* this._onDidStartTerminalShellExecution.fire(e): the directory's own emitter
\* mutant: the start event is not raised
fireStartTerminalShellExecution_dropped(st, s, e) == st

fireStartTerminalShellExecution(st, s, e) ==
    [st EXCEPT !.events = Append(@, StartEvent(st.integ[s].handle, e))]

fireChangeEvent(st, s) ==
    IF st.integ[s].disposed THEN st
    ELSE [st EXCEPT !.changeEvents = Append(@, st.integ[s].handle)]

\* this._onDidRequestShellExecution.fire(commandLineValue)
fireRequestShellExecution(st, s, value) ==
    IF st.integ[s].disposed THEN st
    ELSE [st EXCEPT !.requests = Append(@, [handle |-> st.integ[s].handle, text |-> value])]

\* mutant: the new execution is put at the head of the pending queue
requestNewShellExecution_front(st, s, commandLine, cwd) ==
    LET execution == NewExecution(commandLine, Coalesce(cwd, st.integ[s].cwd), TRUE)
        st1 == [st EXCEPT !.execs = Append(@, execution)]
    IN [st1 EXCEPT !.integ[s].activeExecutions = <<Len(st1.execs)>> \o @]

requestNewShellExecution(st, s, commandLine, cwd) ==
    LET execution == NewExecution(commandLine, Coalesce(cwd, st.integ[s].cwd), TRUE)
        st1 == [st EXCEPT !.execs = Append(@, execution)]
    IN [st1 EXCEPT !.integ[s].activeExecutions = Append(@, Len(st1.execs))]

\* value.executeCommand(commandLine) of the session's public object
executeCommand(st, s, value) ==
    requestNewShellExecution(fireRequestShellExecution(st, s, value), s,
                             CommandLine(value, High, TRUE), st.integ[s].cwd)

\* mutant: the last pending execution with that text is taken
findIndex_last(st, s, value) ==
    LET q == st.integ[s].activeExecutions
        hits == {i \in 1..Len(q) : st.execs[q[i]].commandLine.value = value}
    IN IF hits = {} THEN 0 ELSE CHOOSE i \in hits : \A j \in hits : i >= j

\* this._activeExecutions.findIndex(e => e.value.commandLine.value === value), 0 for -1
findIndex(st, s, value) ==
    LET q == st.integ[s].activeExecutions
        hits == {i \in 1..Len(q) : st.execs[q[i]].commandLine.value = value}
    IN IF hits = {} THEN 0 ELSE CHOOSE i \in hits : \A j \in hits : i <= j

\* mutant: the previous execution is left as it is
endPrevious_skipped(st, s) == st

\* startShellExecution, first part: the execution that is still current is ended
\* and its end event raised
endPrevious(st, s) ==
    LET prev == st.integ[s].currentExecution
    IN IF prev # 0
       THEN fireRequestEndExecution(Execution_endExecution(st, prev, Undefined),
                                    s, prev, Undefined)
       ELSE st

\* mutant: the text is matched whatever the confidence
pendingIndex_byText(st, s, commandLine) == findIndex(st, s, commandLine.value)

\* startShellExecution, second part: the place in the pending queue of the
\* execution to use, 0 when there is none
pendingIndex(st, s, commandLine) ==
    IF commandLine.confidence = High
    THEN findIndex(st, s, commandLine.value)
    ELSE IF Len(st.integ[s].activeExecutions) > 0 THEN 1 ELSE 0

\* mutant: the execution taken from the pending queue stays in the queue
startShellExecution_unspliced(st, s, commandLine, cwd) ==
    LET st1 == endPrevious(st, s)
        q == st1.integ[s].activeExecutions
        index == pendingIndex(st1, s, commandLine)
        st3 == IF index = 0
               THEN [st1 EXCEPT !.execs =
                        Append(@, NewExecution(commandLine,
                                               Coalesce(cwd, st1.integ[s].cwd), FALSE))]
               ELSE st1
        currentExecution == IF index = 0 THEN Len(st3.execs) ELSE q[index]
        st4 == [st3 EXCEPT !.integ[s].currentExecution = currentExecution]
    IN fireStartTerminalShellExecution(st4, s, currentExecution)

startShellExecution(st, s, commandLine, cwd) ==
    LET st1 == endPrevious(st, s)
        q == st1.integ[s].activeExecutions
        index == pendingIndex(st1, s, commandLine)
        \* splice(index, 1) / shift()
        st2 == IF index # 0
               THEN [st1 EXCEPT !.integ[s].activeExecutions = RemoveAt(q, index)]
               ELSE st1
        \* if there is no execution, create a new one
        st3 == IF index = 0
               THEN [st2 EXCEPT !.execs =
                        Append(@, NewExecution(commandLine,
                                               Coalesce(cwd, st2.integ[s].cwd), FALSE))]
               ELSE st2
        currentExecution == IF index = 0 THEN Len(st3.execs) ELSE q[index]
        st4 == [st3 EXCEPT !.integ[s].currentExecution = currentExecution]
    IN fireStartTerminalShellExecution(st4, s, currentExecution)

\* mutant: with no current execution the chunk goes to the head of the pending queue
emitData_pending(st, s, data) ==
    IF st.integ[s].currentExecution # 0
    THEN Execution_emitData(st, st.integ[s].currentExecution, data)
    ELSE IF Len(st.integ[s].activeExecutions) > 0
         THEN Execution_emitData(st, Head(st.integ[s].activeExecutions), data)
         ELSE st

emitData(st, s, data) ==
    IF st.integ[s].currentExecution # 0
    THEN Execution_emitData(st, st.integ[s].currentExecution, data)
    ELSE st

\* mutant: the end event is raised at once and the stream left open
endShellExecution_eventFirst(st, s, commandLine, exitCode) ==
    LET currentExecution == st.integ[s].currentExecution
        st1 == fireRequestEndExecution(st, s, currentExecution, exitCode)
    IN IF currentExecution # 0
       THEN [st1 EXCEPT !.drains =
                Append(@, [integ |-> s, execution |-> currentExecution,
                           exitCode |-> exitCode, awaiting |-> {}])]
       ELSE st

endShellExecution(st, s, commandLine, exitCode) ==
    LET currentExecution == st.integ[s].currentExecution
        st1 == Execution_endExecution(st, currentExecution, commandLine)
    IN IF currentExecution # 0
       THEN [st1 EXCEPT !.drains =
                Append(@, [integ |-> s, execution |-> currentExecution,
                           exitCode |-> exitCode,
                           awaiting |-> Execution_flush(st1, currentExecution)])]
       ELSE st

\* the flush() of drain i has resolved
Flushed(st, i) == \A r \in st.drains[i].awaiting : Drained(st, r)

\* mutant: the continuation raises the end event without comparing identities
endShellExecutionFlushed_unchecked(st, i) ==
    LET d == st.drains[i]
        st1 == [st EXCEPT !.drains = RemoveAt(@, i)]
    IN [fireRequestEndExecution(st1, d.integ, d.execution, d.exitCode)
            EXCEPT !.integ[d.integ].currentExecution = 0]

\* the continuation of currentExecution.flush().then(...) for drain i
endShellExecutionFlushed(st, i) ==
    LET d == st.drains[i]
        st1 == [st EXCEPT !.drains = RemoveAt(@, i)]
    IN IF st1.integ[d.integ].currentExecution = d.execution
       THEN [fireRequestEndExecution(st1, d.integ, d.execution, d.exitCode)
                EXCEPT !.integ[d.integ].currentExecution = 0]
       ELSE st1

\* mutant: two URIs are compared as objects, and a revived URI is always a new one
setCwd_identity(st, s, cwd) ==
    LET old == st.integ[s].cwd
        wasChanged == old # Undefined \/ cwd # Undefined
    IN IF wasChanged
       THEN fireChangeEvent([st EXCEPT !.integ[s].cwd = cwd], s)
       ELSE st

setCwd(st, s, cwd) ==
    LET old == st.integ[s].cwd
        wasChanged == IF old # Undefined
                      THEN cwd = Undefined \/ old[1] # cwd[1]
                      ELSE old # cwd
    IN IF wasChanged
       THEN fireChangeEvent([st EXCEPT !.integ[s].cwd = cwd], s)
       ELSE st

\* mutant: the event is raised whether or not the flag changes
setHasRichCommandDetection_always(st, s, value) ==
    fireChangeEvent([st EXCEPT !.integ[s].hasRichCommandDetection = value], s)

setHasRichCommandDetection(st, s, value) ==
    IF st.integ[s].hasRichCommandDetection # value
    THEN fireChangeEvent([st EXCEPT !.integ[s].hasRichCommandDetection = value], s)
    ELSE st

\* the object the loop of setEnv builds: env[keys[i]] = values[i] for i = 1..Len(keys),
\* a later entry overwriting an earlier one of the same key, values[i] being
\* undefined past the end of values
EnvObject(keys, values) ==
    [k \in {keys[i] : i \in 1..Len(keys)} |->
        LET i == CHOOSE i \in 1..Len(keys) :
                    keys[i] = k /\ \A j \in 1..Len(keys) : keys[j] = k => j <= i
        IN IF i <= Len(values) THEN Some(values[i]) ELSE Undefined]

\* mutant: the new entries are merged into the stored snapshot
setEnv_merged(st, s, keys, values, isTrusted) ==
    LET new == EnvObject(keys, values)
        old == IF st.integ[s].env = Undefined THEN << >> ELSE st.integ[s].env[1].value
        env == [k \in DOMAIN old \cup DOMAIN new |-> IF k \in DOMAIN new THEN new[k] ELSE old[k]]
    IN fireChangeEvent(
          [st EXCEPT !.integ[s].env = Some([value |-> env, isTrusted |-> isTrusted])], s)

setEnv(st, s, keys, values, isTrusted) ==
    fireChangeEvent(
        [st EXCEPT !.integ[s].env =
            Some([value |-> EnvObject(keys, values), isTrusted |-> isTrusted])], s)

\* Disposable.dispose() of the session: its emitters and the listeners in its
\* store (the terminal's disposal hook and the three forwarders) are disposed
Integration_dispose(st, s) == [st EXCEPT !.integ[s].disposed = TRUE]

\* ------------------------------------------------------------------ ExtHostTerminalShellIntegration
getTerminalById(st, h) == h \in st.terminals

\* mutant: a session is constructed and stored at every call
shellIntegrationChange_always(st, h) ==
    IF ~getTerminalById(st, h) THEN st
    ELSE [st EXCEPT !.integ = Append(@, NewIntegration(h)),
                    !.active[h] = Len(st.integ) + 1,
                    !.changeEvents = Append(@, h)]

shellIntegrationChange(st, h) ==
    IF ~getTerminalById(st, h) THEN st
    ELSE LET st1 == IF st.active[h] = 0
                    THEN [st EXCEPT !.integ = Append(@, NewIntegration(h)),
                                    !.active[h] = Len(st.integ) + 1]
                    ELSE st
         IN [st1 EXCEPT !.changeEvents = Append(@, h)]

shellExecutionStart(st, h, value, confidence, isTrusted, cwd) ==
    LET st1 == IF st.active[h] = 0 THEN shellIntegrationChange(st, h) ELSE st
    IN IF st1.active[h] # 0
       THEN startShellExecution(st1, st1.active[h],
                                CommandLine(value, confidence, isTrusted), cwd)
       ELSE st1

shellExecutionEnd(st, h, value, confidence, isTrusted, exitCode) ==
    IF st.active[h] # 0
    THEN endShellExecution(st, st.active[h],
                           Some(CommandLine(value, confidence, isTrusted)), exitCode)
    ELSE st

shellExecutionData(st, h, data) ==
    IF st.active[h] # 0 THEN emitData(st, st.active[h], data) ELSE st

\* mutant: the cwd is stored in every session of the directory
cwdChange_all(st, h, cwd) ==
    LET hs == {g \in Handles : st.active[g] # 0}
        F[S \in SUBSET hs] ==
            IF S = {} THEN st
            ELSE LET g == CHOOSE g \in S : TRUE
                 IN setCwd(F[S \ {g}], st.active[g], cwd)
    IN F[hs]

cwdChange(st, h, cwd) ==
    IF st.active[h] # 0 THEN setCwd(st, st.active[h], cwd) ELSE st

shellEnvChange(st, h, keys, values, isTrusted) ==
    IF st.active[h] # 0 THEN setEnv(st, st.active[h], keys, values, isTrusted) ELSE st

setHasRichCommandDetectionSignal(st, h, value) ==
    IF st.active[h] # 0 THEN setHasRichCommandDetection(st, st.active[h], value) ELSE st

\* mutant: the entry is deleted and the session left undisposed
closeTerminal_undisposed(st, h) == [st EXCEPT !.active[h] = 0]

closeTerminal(st, h) ==
    LET st1 == IF st.active[h] # 0 THEN Integration_dispose(st, st.active[h]) ELSE st
    IN [st1 EXCEPT !.active[h] = 0]

\* the listener a session registered on its terminal's onWillDispose, kept in the
\* session's store: () => this._activeShellIntegrations.get(instanceId)?.dispose()
onWillDispose(st, h) ==
    IF /\ \E s \in 1..Len(st.integ) : st.integ[s].handle = h /\ ~st.integ[s].disposed
       /\ st.active[h] # 0
    THEN Integration_dispose(st, st.active[h])
    ELSE st

\* the terminal service disposes terminal h: its onWillDispose fires and
\* getTerminalById no longer returns it
disposeTerminal(st, h) ==
    [onWillDispose(st, h) EXCEPT !.terminals = @ \ {h}]

\* dispose() of the directory: every session is disposed and the map cleared
dispose(st) ==
    [st EXCEPT !.integ = [s \in 1..Len(st.integ) |->
                            IF \E h \in Handles : st.active[h] = s
                            THEN [st.integ[s] EXCEPT !.disposed = TRUE]
                            ELSE st.integ[s]],
               !.active = [h \in Handles |-> 0]]

\* ------------------------------------------------------------------ actions
Load(st) ==
    Len(st.integ) + Len(st.execs) + Len(st.readers) + Len(st.drains)
        + Len(st.changeEvents) + Len(pushed)

Bounded(st, cap) == Load(st) <= cap

History == UNCHANGED <<pushed, attach, lastStart, lastOp>>

ShellIntegrationChange(cap, h) ==
    LET st == shellIntegrationChange(Cur, h)
    IN Bounded(st, cap) /\ Commit(st) /\ History

ShellExecutionStart(cap, h, value, confidence, isTrusted, cwd) ==
    LET st == shellExecutionStart(Cur, h, value, confidence, isTrusted, cwd)
    IN /\ Bounded(st, cap)
       /\ Commit(st)
       /\ lastStart' = Some([handle |-> h, cwd |-> cwd,
                             commandLine |-> CommandLine(value, confidence, isTrusted)])
       /\ UNCHANGED <<pushed, attach, lastOp>>

ShellExecutionEnd(cap, h, value, confidence, isTrusted, exitCode) ==
    LET st == shellExecutionEnd(Cur, h, value, confidence, isTrusted, exitCode)
    IN Bounded(st, cap) /\ Commit(st) /\ History

\* the execution a data signal for handle h is handed to, 0 when it is dropped
\* before reaching one
DataTarget(h) == IF active[h] # 0 THEN integ[active[h]].currentExecution ELSE 0

ShellExecutionData(cap, h, data) ==
    LET st == shellExecutionData(Cur, h, data)
        e == DataTarget(h)
    IN /\ Bounded(st, cap)
       /\ e # 0 => Load(st) < cap
       /\ Commit(st)
       /\ pushed' = IF e # 0 /\ ~execs[e].ended
                    THEN Append(pushed, [execution |-> e, data |-> data])
                    ELSE pushed
       /\ UNCHANGED <<attach, lastStart, lastOp>>

CwdChange(cap, h, cwd) ==
    LET st == cwdChange(Cur, h, cwd)
    IN Bounded(st, cap) /\ Commit(st) /\ History

\* shellIntegration.executeCommand(text), called by an extension
ExecuteCommand(cap, s, value) ==
    /\ s \in 1..Len(integ)
    /\ LET st == executeCommand(Cur, s, value)
       IN Bounded(st, cap) /\ Commit(st) /\ History

\* execution.read(), called by an extension
Read(cap, e) ==
    /\ e \in 1..Len(execs)
    /\ LET st == createDataStream(Cur, e)
       IN /\ Bounded(st, cap)
          /\ Commit(st)
          /\ attach' = Append(attach, [at |-> Len(PushedTo(e)), ended |-> execs[e].ended])
          /\ UNCHANGED <<pushed, lastStart, lastOp>>

\* the consumer of reader r takes one step of its for-await loop
ReaderNext(r) ==
    /\ r \in 1..Len(readers)
    /\ CanNext(readers[r])
    /\ Commit([Cur EXCEPT !.readers[r] = next(readers[r])])
    /\ History

\* the continuation of a resolved flush() runs
DrainComplete(i) ==
    /\ i \in 1..Len(drains)
    /\ Flushed(Cur, i)
    /\ Commit(endShellExecutionFlushed(Cur, i))
    /\ History

\* ---- the same operations, recorded in lastOp
\* what lastOp keeps of an operation: its name, the handle and the execution it
\* was about (0 for none), whether it changed anything and the sessions it disposed
Op(op, h, e, st) ==
    Some([op |-> op, handle |-> h, execution |-> e, changed |-> st # Cur,
          disposed |-> {s \in 1..Len(integ) : st.integ[s].disposed /\ ~integ[s].disposed}])

\* a signal or call that leaves the program in state st
Handled(cap, op, h, st) ==
    /\ Bounded(st, cap)
    /\ Commit(st)
    /\ lastOp' = Op(op, h, 0, st)
    /\ UNCHANGED <<pushed, attach, lastStart>>

\* an env signal; lastOp also keeps the snapshot stored before it
HandledEnv(cap, h, keys, values, isTrusted) ==
    LET st == shellEnvChange(Cur, h, keys, values, isTrusted)
    IN /\ Bounded(st, cap)
       /\ Commit(st)
       /\ lastOp' = Some([op |-> "shellEnvChange", handle |-> h, execution |-> 0,
                           changed |-> st # Cur, disposed |-> {},
                           before |-> IF active[h] # 0 THEN integ[active[h]].env
                                      ELSE Undefined])
       /\ UNCHANGED <<pushed, attach, lastStart>>

HandledData(cap, h, data) ==
    LET st == shellExecutionData(Cur, h, data)
        e == DataTarget(h)
    IN /\ Bounded(st, cap)
       /\ e # 0 => Load(st) < cap
       /\ Commit(st)
       /\ pushed' = IF e # 0 /\ ~execs[e].ended
                    THEN Append(pushed, [execution |-> e, data |-> data])
                    ELSE pushed
       /\ lastOp' = Op("shellExecutionData", h, e, st)
       /\ UNCHANGED <<attach, lastStart>>

HandledRead(cap, e) ==
    /\ e \in 1..Len(execs)
    /\ LET st == createDataStream(Cur, e)
       IN /\ Bounded(st, cap)
          /\ Commit(st)
          /\ attach' = Append(attach, [at |-> Len(PushedTo(e)), ended |-> execs[e].ended])
          /\ lastOp' = Op("read", 0, e, st)
          /\ UNCHANGED <<pushed, lastStart>>

HandledNext(r) ==
    /\ r \in 1..Len(readers)
    /\ CanNext(readers[r])
    /\ LET st == [Cur EXCEPT !.readers[r] = next(readers[r])]
       IN /\ Commit(st)
          /\ lastOp' = Op("next", 0, readers[r].exec, st)
          /\ UNCHANGED <<pushed, attach, lastStart>>

HandledDrain(i) ==
    /\ i \in 1..Len(drains)
    /\ Flushed(Cur, i)
    /\ LET st == endShellExecutionFlushed(Cur, i)
       IN /\ Commit(st)
          /\ lastOp' = Op("flushed", integ[drains[i].integ].handle, drains[i].execution, st)
          /\ UNCHANGED <<pushed, attach, lastStart>>

\* ------------------------------------------------------------------ specifications
Init ==
    /\ terminals = {1}
    /\ active = [h \in Handles |-> 0]
    /\ integ = <<>>
    /\ execs = <<>>
    /\ readers = <<>>
    /\ drains = <<>>
    /\ events = <<>>
    /\ changeEvents = <<>>
    /\ requests = <<>>
    /\ pushed = <<>>
    /\ attach = <<>>
    /\ lastStart = Undefined
    /\ lastOp = Undefined

\* Correlation of start/end signals with pending executions: one terminal, no
\* readers, no working directories.
Next ==
    \/ ShellIntegrationChange(CorrLoad, 1)
    \/ \E value \in Texts, confidence \in Confidences :
          ShellExecutionStart(CorrLoad, 1, value, confidence, TRUE, Undefined)
    \/ \E value \in Texts, exitCode \in {Undefined, Some(0)} :
          ShellExecutionEnd(CorrLoad, 1, value, High, TRUE, exitCode)
    \/ \E s \in 1..Len(integ), value \in Texts : ExecuteCommand(CorrLoad, s, value)
    \/ \E i \in 1..Len(drains) : DrainComplete(i)

Spec == Init /\ [][Next]_vars

\* Working directories of executions: one terminal, one command text.
CwdNext ==
    \/ \E confidence \in {Low, High}, cwd \in Cwds :
          ShellExecutionStart(CwdLoad, 1, "ls", confidence, TRUE, cwd)
    \/ \E cwd \in Cwds : CwdChange(CwdLoad, 1, cwd)
    \/ \E s \in 1..Len(integ), value \in Texts : ExecuteCommand(CwdLoad, s, value)

CwdSpec == Init /\ [][CwdNext]_vars

\* Data streams: one terminal, one command text, readers at their own pace.
StreamNext ==
    \/ ShellExecutionStart(StreamLoad, 1, "ls", High, TRUE, Undefined)
    \/ ShellExecutionEnd(StreamLoad, 1, "ls", High, TRUE, Some(0))
    \/ \E data \in Chunks : ShellExecutionData(StreamLoad, 1, data)
    \/ \E s \in 1..Len(integ) : ExecuteCommand(StreamLoad, s, "ls")
    \/ \E e \in 1..Len(execs) : Read(StreamLoad, e)
    \/ \E r \in 1..Len(readers) : ReaderNext(r)
    \/ \E i \in 1..Len(drains) : DrainComplete(i)

StreamSpec == Init /\ [][StreamNext]_vars

\* Data streams of executions the shell reports, with every reader driven for as
\* long as it can take a step.
LiveNext ==
    \/ ShellExecutionStart(StreamLoad, 1, "ls", High, TRUE, Undefined)
    \/ ShellExecutionEnd(StreamLoad, 1, "ls", High, TRUE, Some(0))
    \/ \E data \in Chunks : ShellExecutionData(StreamLoad, 1, data)
    \/ \E e \in 1..Len(execs) : Read(StreamLoad, e)
    \/ \E r \in 1..Len(readers) : ReaderNext(r)
    \/ \E i \in 1..Len(drains) : DrainComplete(i)

FairStreamSpec ==
    Init /\ [][LiveNext]_vars /\ \A r \in 1..StreamLoad : WF_vars(ReaderNext(r))

\* The life of executions on one session: started with low or high confidence,
\* ended by the shell or by the next start, submitted locally, while the
\* session's cwd changes.
EndNext ==
    \/ ShellExecutionStart(EndLoad, 1, "ls", Low, TRUE, Undefined)
    \/ ShellExecutionStart(EndLoad, 1, "pwd", High, TRUE, Undefined)
    \/ ShellExecutionEnd(EndLoad, 1, "pwd", High, TRUE, Some(0))
    \/ CwdChange(EndLoad, 1, Some("file:///u1"))
    \/ \E s \in 1..Len(integ), value \in Texts : ExecuteCommand(EndLoad, s, value)
    \/ \E i \in 1..Len(drains) : DrainComplete(i)

EndSpec == Init /\ [][EndNext]_vars

\* Data streams with an abandoned reader: the first reader may never be driven,
\* every other reader is driven for as long as it can take a step, and every
\* continuation of a resolved flush() runs.
AbandonNext ==
    \/ ShellExecutionStart(AbandonLoad, 1, "ls", High, TRUE, Undefined)
    \/ ShellExecutionEnd(AbandonLoad, 1, "ls", High, TRUE, Some(0))
    \/ \E data \in Chunks : ShellExecutionData(AbandonLoad, 1, data)
    \/ \E e \in 1..Len(execs) : Read(AbandonLoad, e)
    \/ \E r \in 1..Len(readers) : ReaderNext(r)
    \/ \E i \in 1..Len(drains) : DrainComplete(i)

AbandonSpec ==
    /\ Init /\ [][AbandonNext]_vars
    /\ \A r \in 2..AbandonLoad : WF_vars(ReaderNext(r))
    /\ \A i \in 1..AbandonLoad : WF_vars(DrainComplete(i))

\* The directory over the life of its terminals: terminal 1 is known to the
\* terminal service until it is disposed, terminal 2 never is.
DirSignal(h) ==
    \/ Handled(DirLoad, "shellIntegrationChange", h, shellIntegrationChange(Cur, h))
    \/ Handled(DirLoad, "shellExecutionStart", h,
               shellExecutionStart(Cur, h, "ls", High, TRUE, Undefined))
    \/ Handled(DirLoad, "shellExecutionEnd", h,
               shellExecutionEnd(Cur, h, "ls", High, TRUE, Some(0)))
    \/ HandledData(DirLoad, h, "a")
    \/ Handled(DirLoad, "shellEnvChange", h, shellEnvChange(Cur, h, <<"A">>, <<"1">>, TRUE))
    \/ Handled(DirLoad, "cwdChange", h, cwdChange(Cur, h, Some("file:///u1")))
    \/ Handled(DirLoad, "setHasRichCommandDetection", h,
               setHasRichCommandDetectionSignal(Cur, h, TRUE))

DirNext ==
    \/ \E h \in Handles : DirSignal(h)
    \/ \E h \in Handles : Handled(DirLoad, "closeTerminal", h, closeTerminal(Cur, h))
    \/ \E h \in terminals : Handled(DirLoad, "disposeTerminal", h, disposeTerminal(Cur, h))
    \/ Handled(DirLoad, "dispose", 0, dispose(Cur))
    \/ \E s \in 1..Len(integ) :
          Handled(DirLoad, "executeCommand", integ[s].handle, executeCommand(Cur, s, "ls"))
    \/ \E e \in 1..Len(execs) : HandledRead(DirLoad, e)
    \/ \E r \in 1..Len(readers) : HandledNext(r)
    \/ \E i \in 1..Len(drains) : HandledDrain(i)

DirSpec == Init /\ [][DirNext]_vars

\* The same, with every reader driven for as long as it can take a step and
\* every continuation of a resolved flush() run.
FairDirSpec ==
    /\ Init /\ [][DirNext]_vars
    /\ \A r \in 1..DirLoad : WF_vars(HandledNext(r))
    /\ \A i \in 1..DirLoad : WF_vars(HandledDrain(i))

\* The attributes of one session: env, cwd, the capability flag and the
\* executions submitted locally.
AttrNext ==
    \/ Handled(AttrLoad, "shellExecutionStart", 1,
               shellExecutionStart(Cur, 1, "ls", High, TRUE, Undefined))
    \/ \E keys \in EnvKeys, values \in EnvValues : HandledEnv(AttrLoad, 1, keys, values, TRUE)
    \/ \E cwd \in Cwds : Handled(AttrLoad, "cwdChange", 1, cwdChange(Cur, 1, cwd))
    \/ \E value \in BOOLEAN :
          Handled(AttrLoad, "setHasRichCommandDetection", 1,
                  setHasRichCommandDetectionSignal(Cur, 1, value))
    \/ \E s \in 1..Len(integ), value \in Texts :
          Handled(AttrLoad, "executeCommand", integ[s].handle, executeCommand(Cur, s, value))

AttrSpec == Init /\ [][AttrNext]_vars

\* Two live terminals, each with its session, their signals interleaved.
IsoInit ==
    /\ terminals = Handles
    /\ active = [h \in Handles |-> 0]
    /\ integ = <<>>
    /\ execs = <<>>
    /\ readers = <<>>
    /\ drains = <<>>
    /\ events = <<>>
    /\ changeEvents = <<>>
    /\ requests = <<>>
    /\ pushed = <<>>
    /\ attach = <<>>
    /\ lastStart = Undefined
    /\ lastOp = Undefined

IsoSignal(h) ==
    \/ ShellIntegrationChange(IsoLoad, h)
    \/ ShellExecutionStart(IsoLoad, h, "ls", High, TRUE, Undefined)
    \/ ShellExecutionEnd(IsoLoad, h, "ls", High, TRUE, Some(0))
    \/ CwdChange(IsoLoad, h, Some("file:///u1"))

IsoNext ==
    \/ \E h \in Handles : IsoSignal(h)
    \/ \E i \in 1..Len(drains) : DrainComplete(i)

IsoSpec == IsoInit /\ [][IsoNext]_vars

\* ------------------------------------------------------------------ properties
\* the step taken is the one that leaves the program in state st
StepIs(st) ==
    /\ terminals' = st.terminals
    /\ active' = st.active
    /\ integ' = st.integ
    /\ execs' = st.execs
    /\ readers' = st.readers
    /\ drains' = st.drains
    /\ events' = st.events
    /\ changeEvents' = st.changeEvents
    /\ requests' = st.requests

\* how many end events the log ev holds for execution e
EndCount(ev, e) ==
    Cardinality({i \in 1..Len(ev) : ev[i].type = "end" /\ ev[i].execution = e})

\* the readers attached to the stream of execution e
ReadersOf(e) == {r \in 1..Len(readers) : readers[r].exec = e /\ readers[r].stream}

\* C1 (as claimed): whenever an end event for an execution is raised, every
\* reader attached to that execution has already observed the end of its sequence.
C1_DrainBeforeEnd ==
    [][\A e \in 1..Len(execs) :
          EndCount(events', e) > EndCount(events, e)
              => \A r \in ReadersOf(e) : readers[r].done]_vars

\* C2: no execution ever has more than one end event.
C2_NoDuplicateEnd ==
    \A e \in 1..Len(execs) : EndCount(events, e) <= 1

\* C2 witness: an execution was ended by the shell, then superseded by a start
\* (which raised its end event) while the drain of the shell's end is still pending.
C2_Witness ==
    \E i \in 1..Len(drains) :
        /\ integ[drains[i].integ].currentExecution # drains[i].execution
        /\ integ[drains[i].integ].currentExecution # 0
        /\ EndCount(events, drains[i].execution) = 1

\* C3: a session has zero or one current execution, and a start signal that
\* arrives while execution E is current ends E and raises E's end event, with no
\* exit code, right before the start event of the execution that becomes current.
C3_AtMostOneCurrent ==
    [][\A value \in Texts, confidence \in Confidences :
        LET s == active[1]
            E == integ[s].currentExecution
            new == integ'[s].currentExecution
        IN (/\ s # 0
            /\ E # 0
            /\ StepIs(shellExecutionStart(Cur, 1, value, confidence, TRUE, Undefined)))
           => /\ execs'[E].ended
              /\ new \in 1..Len(execs')
              /\ new # E
              /\ events' = events \o <<EndEvent(1, E, Undefined), StartEvent(1, new)>>
              /\ \A t \in 1..Len(integ') : integ'[t].currentExecution \in 0..Len(execs')]_vars

\* C3 witness: an execution that no end signal ever touched (its command line is
\* still the low-confidence one of its start) has its end event, without exit
\* code, right before the start event of the execution that is current now.
C3_Witness ==
    \E i \in 1..(Len(events) - 1) :
        /\ events[i].type = "end"
        /\ events[i].exitCode = Undefined
        /\ execs[events[i].execution].commandLine.confidence = Low
        /\ events[i + 1].type = "start"
        /\ i + 1 = Len(events)
        /\ integ[active[1]].currentExecution = events[i + 1].execution

\* the text of the i-th pending execution of session s
PendingText(s, i) == execs[integ[s].activeExecutions[i]].commandLine.value

\* the queue q without its i-th entry
Without(q, i) == [k \in 1..(Len(q) - 1) |-> IF k < i THEN q[k] ELSE q[k + 1]]

\* C4: a start signal of confidence High whose text is that of some pending
\* execution makes the first pending execution with that text current, removes
\* that one entry and leaves the others queued in their order.
C4_HighConfidenceExactMatch ==
    [][\A value \in Texts :
        LET s == active[1]
            q == integ[s].activeExecutions
        IN (/\ s # 0
            /\ \E i \in 1..Len(q) : PendingText(s, i) = value
            /\ StepIs(shellExecutionStart(Cur, 1, value, High, TRUE, Undefined)))
           => \E i \in 1..Len(q) :
                /\ PendingText(s, i) = value
                /\ \A j \in 1..(i - 1) : PendingText(s, j) # value
                /\ integ'[s].currentExecution = q[i]
                /\ integ'[s].activeExecutions = Without(q, i)
                /\ execs'[q[i]].commandLine = execs[q[i]].commandLine]_vars

\* C4 witness: the latest signal was a High start; the execution it made current
\* was pre-registered, after an execution of another text that is still pending
\* ahead of an execution of the same text as the current one.
C4_Witness ==
    /\ lastStart # Undefined
    /\ lastStart[1].commandLine.confidence = High
    /\ active[1] # 0
    /\ LET s == active[1]
           cur == integ[s].currentExecution
           q == integ[s].activeExecutions
       IN /\ cur # 0
          /\ execs[cur].requested
          /\ Last(events) = StartEvent(1, cur)
          /\ Len(q) = 2
          /\ q[1] < cur
          /\ cur < q[2]
          /\ execs[q[1]].commandLine.value # execs[cur].commandLine.value
          /\ execs[q[2]].commandLine.value = execs[cur].commandLine.value

\* C5: a start signal of confidence Low or Medium makes the head of a non-empty
\* pending queue current, whatever its text, and leaves the rest queued in order.
C5_LowConfidenceFifo ==
    [][\A value \in Texts, confidence \in {Low, Medium} :
        LET s == active[1]
            q == integ[s].activeExecutions
        IN (/\ s # 0
            /\ Len(q) > 0
            /\ StepIs(shellExecutionStart(Cur, 1, value, confidence, TRUE, Undefined)))
           => /\ integ'[s].currentExecution = Head(q)
              /\ integ'[s].activeExecutions = Tail(q)
              /\ execs'[Head(q)].commandLine = execs[Head(q)].commandLine]_vars

\* C5 witness: the latest signal was a Low start reporting another text than
\* that of the pre-registered execution it made current, while an execution with
\* the reported text stays pending.
C5_Witness ==
    /\ lastStart # Undefined
    /\ lastStart[1].commandLine.confidence = Low
    /\ active[1] # 0
    /\ LET s == active[1]
           cur == integ[s].currentExecution
           q == integ[s].activeExecutions
       IN /\ cur # 0
          /\ execs[cur].requested
          /\ Last(events) = StartEvent(1, cur)
          /\ execs[cur].commandLine.value # lastStart[1].commandLine.value
          /\ Len(q) = 2
          /\ cur < q[1]
          /\ execs[q[1]].commandLine.value = lastStart[1].commandLine.value

\* C6: a start signal that finds no pending execution to use (empty queue, or
\* confidence High and no pending execution of that text) makes a new execution
\* current, with the reported command line and the reported cwd, or the
\* session's cwd when none was reported; the pending queue stays as it was.
C6_UnregisteredSynthesis ==
    [][\A confidence \in {Low, High}, cwd \in Cwds :
        LET s == active[1]
            q == IF s # 0 THEN integ[s].activeExecutions ELSE <<>>
            sessionCwd == IF s # 0 THEN integ[s].cwd ELSE Undefined
            t == active'[1]
            new == Len(execs) + 1
        IN (/\ \/ Len(q) = 0
               \/ confidence = High /\ \A i \in 1..Len(q) : PendingText(s, i) # "ls"
            /\ StepIs(shellExecutionStart(Cur, 1, "ls", confidence, TRUE, cwd)))
           => /\ t # 0
              /\ Len(execs') = new
              /\ integ'[t].currentExecution = new
              /\ execs'[new].commandLine = CommandLine("ls", confidence, TRUE)
              /\ execs'[new].cwd = (IF cwd # Undefined THEN cwd ELSE sessionCwd)
              /\ ~execs'[new].ended
              /\ integ'[t].activeExecutions = q]_vars

\* C6 witness: the latest start signal reported no cwd and found only an
\* execution of another text pending; the execution it made current is a new one
\* that carries the session's cwd.
C6_Witness ==
    /\ lastStart # Undefined
    /\ lastStart[1].cwd = Undefined
    /\ lastStart[1].commandLine.confidence = High
    /\ active[1] # 0
    /\ LET s == active[1]
           cur == integ[s].currentExecution
       IN /\ cur # 0
          /\ ~execs[cur].requested
          /\ Last(events) = StartEvent(1, cur)
          /\ integ[s].cwd # Undefined
          /\ execs[cur].cwd = integ[s].cwd
          /\ Len(integ[s].activeExecutions) = 1
          /\ integ[s].activeExecutions[1] < cur

\* the chunks handed to the execution of reader r after r attached: the first n
\* of them
PushedAfterAttach(r, n) ==
    LET all == PushedTo(readers[r].exec)
    IN [i \in 1..n |-> all[attach[r].at + i]]

\* how many chunks were handed to the execution of reader r after r attached
\* and before the stream was closed
NumAfterAttach(r) == Len(PushedTo(readers[r].exec)) - attach[r].at

\* C7: what a reader that attached before the close has produced is, in order,
\* the chunks pushed to its execution after it attached, none missing and none
\* twice; once it has seen the end of its sequence it has produced all of them.
C7_NoLossOnAttach ==
    \A r \in 1..Len(readers) :
        ~attach[r].ended =>
            /\ readers[r].pos <= NumAfterAttach(r)
            /\ Produced(readers[r]) = PushedAfterAttach(r, readers[r].pos)
            /\ readers[r].done => readers[r].pos = NumAfterAttach(r)

\* C7 witness: a reader has been given the two different chunks pushed after it
\* attached, and has seen the end of its sequence.
C7_Witness ==
    \E r \in 1..Len(readers) :
        /\ ~attach[r].ended
        /\ readers[r].done
        /\ Len(Produced(readers[r])) = 2
        /\ Produced(readers[r])[1] # Produced(readers[r])[2]

\* C8: the queue of a reader never holds a chunk emitted before the reader
\* attached: its i-th entry is the i-th chunk emitted after the attach.
C8_NoReplayBuffer ==
    \A r \in 1..Len(readers) :
        /\ Len(readers[r].results) <= NumAfterAttach(r)
        /\ \A i \in 1..Len(readers[r].results) :
              readers[r].results[i] = PushedTo(readers[r].exec)[attach[r].at + i]

\* C8 witness: a chunk was emitted while no reader was attached, a reader
\* attached after it, and that reader was given only the different chunk
\* emitted next.
C8_Witness ==
    \E r \in 1..Len(readers) :
        /\ attach[r].at = 1
        /\ \A q \in 1..Len(readers) : readers[q].exec = readers[r].exec => attach[q].at >= 1
        /\ Len(PushedTo(readers[r].exec)) = 2
        /\ readers[r].pos = 1
        /\ readers[r].done
        /\ Produced(readers[r]) = <<PushedTo(readers[r].exec)[2]>>
        /\ PushedTo(readers[r].exec)[1] # PushedTo(readers[r].exec)[2]

\* C9: a read() on an execution that was ended gives a sequence without chunks
\* that ends as soon as it is driven; it never suspends.
C9_PostCloseRead ==
    \A r \in 1..Len(readers) :
        attach[r].ended =>
            /\ readers[r].results = <<>>
            /\ readers[r].done \/ CanNext(readers[r])
            /\ CanNext(readers[r]) => next(readers[r]).done

\* C9 witness: an execution nobody had read before its forced end was read
\* afterwards, and that reader has seen the end of its sequence.
C9_Witness ==
    \E r \in 1..Len(readers) :
        /\ attach[r].ended
        /\ readers[r].done
        /\ \A q \in 1..Len(readers) : readers[q].exec = readers[r].exec => attach[q].ended
        /\ EndCount(events, readers[r].exec) = 1
        /\ \E i \in 1..Len(events) :
              events[i] = EndEvent(1, readers[r].exec, Undefined)

\* C10: a reader that was attached when its execution's stream was closed
\* eventually sees the end of its sequence, if it keeps being driven.
C10_CloseReleasesReaders ==
    \A r \in 1..StreamLoad :
        (r <= Len(readers) /\ ~attach[r].ended /\ execs[readers[r].exec].ended)
            ~> (r <= Len(readers) /\ readers[r].done)

\* C10 witness: two readers of one execution, one of them with a chunk delivered
\* before the close, have both seen the end of their sequences after the close.
C10_Witness ==
    \E r1, r2 \in 1..Len(readers) :
        /\ r1 # r2
        /\ readers[r1].exec = readers[r2].exec
        /\ ~attach[r1].ended /\ ~attach[r2].ended
        /\ execs[readers[r1].exec].ended
        /\ readers[r1].done /\ readers[r2].done
        /\ Len(Produced(readers[r1])) = 1

\* the names lastOp gives to the signals of the shell
SignalOps ==
    {"shellIntegrationChange", "shellExecutionStart", "shellExecutionEnd",
     "shellExecutionData", "shellEnvChange", "cwdChange", "setHasRichCommandDetection"}

\* the latest operation was op
LastOpIs(op) == lastOp # Undefined /\ lastOp[1].op = op

\* session s still holds execution e as current or pending
Holds(s, e) ==
    \/ integ[s].currentExecution = e
    \/ \E i \in 1..Len(integ[s].activeExecutions) : integ[s].activeExecutions[i] = e

\* C11 (as claimed): when a session has just been disposed (closeTerminal, the
\* terminal's disposal, or the disposal of the directory), a reader attached to
\* an execution that is current or pending in it eventually sees the end of
\* its sequence.
C11_FiniteUnderDisposal ==
    \A r \in 1..DirLoad :
        (/\ LastOpIs("closeTerminal") \/ LastOpIs("disposeTerminal") \/ LastOpIs("dispose")
         /\ r <= Len(readers)
         /\ readers[r].stream
         /\ \E s \in lastOp[1].disposed : Holds(s, readers[r].exec))
            ~> (r <= Len(readers) /\ readers[r].done)

\* C12 (as claimed): a signal for a handle the terminal service has no terminal
\* for raises no event and changes no session and no execution.
C12_DeadHandleIgnored ==
    [][\A h \in Handles :
        (/\ h \notin terminals
         /\ lastOp' # Undefined
         /\ lastOp'[1].op \in SignalOps
         /\ lastOp'[1].handle = h)
           => /\ events' = events
              /\ changeEvents' = changeEvents
              /\ integ' = integ
              /\ execs' = execs]_vars

\* C13 (as claimed): right after a terminal's disposal hook has fired, or
\* closeTerminal was handled, the directory has no entry for that handle; right
\* after the directory was disposed it has no entry at all.
C13_EntriesRemoved ==
    /\ LastOpIs("disposeTerminal") => active[lastOp[1].handle] = 0
    /\ LastOpIs("closeTerminal") => active[lastOp[1].handle] = 0
    /\ LastOpIs("dispose") => \A h \in Handles : active[h] = 0

\* C14 (as claimed): right after a signal of any kind was handled for a handle
\* of a live terminal, the directory has a session for that handle.
C14_LazyCreation ==
    (/\ lastOp # Undefined
     /\ lastOp[1].op \in SignalOps
     /\ lastOp[1].handle \in terminals)
        => active[lastOp[1].handle] # 0

\* session s was disposed and is not in the directory
Closed(s) == integ[s].disposed /\ active[integ[s].handle] # s

\* the executions session s holds, and those whose flush() it awaits
ExecutionsOf(s) ==
    {e \in 1..Len(execs) :
        Holds(s, e) \/ \E i \in 1..Len(drains) : drains[i].integ = s /\ drains[i].execution = e}

\* C15: closeTerminal removes the entry and disposes the session in that step,
\* raising no event; and no step ever raises an end event for an execution of
\* a session that was disposed and removed, the completion of a drain included.
C15_CloseAbandons ==
    [][/\ \A h \in Handles :
            (active[h] # 0 /\ StepIs(closeTerminal(Cur, h)))
                => /\ active'[h] = 0
                   /\ integ'[active[h]].disposed
                   /\ events' = events
       /\ \A s \in 1..Len(integ) :
            Closed(s) => \A e \in ExecutionsOf(s) :
                            EndCount(events', e) = EndCount(events, e)]_vars

\* C15 witness: the flush() continuation of an execution the shell had ended
\* ran after its session was disposed and removed; the execution was started
\* and has no end event.
C15_Witness ==
    /\ LastOpIs("flushed")
    /\ LET e == lastOp[1].execution
       IN /\ execs[e].ended
          /\ EndCount(events, e) = 0
          /\ \E i \in 1..Len(events) : events[i] = StartEvent(lastOp[1].handle, e)
          /\ \E s \in 1..Len(integ) :
                integ[s].handle = lastOp[1].handle /\ Closed(s) /\ integ[s].currentExecution = 0

\* C16: in a session without current execution a data signal and an end
\* signal change nothing at all: no event, no reader, no field of the session.
C16_NoCurrentNoOp ==
    \A h \in Handles :
        (active[h] # 0 /\ integ[active[h]].currentExecution = 0)
            => /\ \A data \in Chunks : shellExecutionData(Cur, h, data) = Cur
               /\ \A value \in Texts, confidence \in Confidences, exitCode \in ExitCodes :
                     shellExecutionEnd(Cur, h, value, confidence, TRUE, exitCode) = Cur

\* C16 witness: a data signal was just handled, changing nothing, for a live
\* session that has no current execution and a pending one with a reader attached.
C16_Witness ==
    /\ LastOpIs("shellExecutionData")
    /\ ~lastOp[1].changed
    /\ LET s == active[lastOp[1].handle]
       IN /\ s # 0
          /\ ~integ[s].disposed
          /\ integ[s].currentExecution = 0
          /\ \E r \in 1..Len(readers) :
                /\ readers[r].stream
                /\ readers[r].results = <<>>
                /\ Holds(s, readers[r].exec)

\* C17: a data signal leaves every reader as it was, except the readers of the
\* execution that is current and not ended when the signal is handled.
C17_DataToCurrentOnly ==
    \A data \in Chunks :
        LET st == shellExecutionData(Cur, 1, data)
        IN \A r \in 1..Len(readers) :
              (readers[r].exec # DataTarget(1) \/ execs[readers[r].exec].ended)
                  => st.readers[r] = readers[r]

\* C17 witness: a reader of the current execution was given a chunk that a
\* reader attached earlier to a pending execution was not given.
C17_Witness ==
    /\ active[1] # 0
    /\ \E rc, rp \in 1..Len(readers) :
          /\ rp < rc
          /\ readers[rc].exec = integ[active[1]].currentExecution
          /\ Len(readers[rc].results) = 1
          /\ readers[rp].stream
          /\ readers[rp].results = <<>>
          /\ \E i \in 1..Len(integ[active[1]].activeExecutions) :
                integ[active[1]].activeExecutions[i] = readers[rp].exec

LastGiven(keys, i, k) == keys[i] = k /\ \A j \in (i + 1)..Len(keys) : keys[j] # k

\* C19: an env signal for a live session stores exactly the given keys, each
\* with the value given at its place (the last place, for a key given twice;
\* no value, past the end of the values), and raises exactly one change event,
\* whatever was stored before; nothing else changes.
C19_EnvReplaced ==
    [][\A keys \in EnvKeys, values \in EnvValues :
        LET s == active[1]
        IN (s # 0 /\ StepIs(shellEnvChange(Cur, 1, keys, values, TRUE)))
            => /\ integ'[s].env # Undefined
               /\ integ'[s].env[1].isTrusted
               /\ DOMAIN integ'[s].env[1].value = {keys[i] : i \in 1..Len(keys)}
               /\ \A i \in 1..Len(keys) :
                     LastGiven(keys, i, keys[i])
                         => integ'[s].env[1].value[keys[i]] =
                                (IF i <= Len(values) THEN Some(values[i]) ELSE Undefined)
               /\ changeEvents' = Append(changeEvents, 1)
               /\ integ' = [integ EXCEPT ![s].env = integ'[s].env]
               /\ events' = events /\ execs' = execs /\ requests' = requests]_vars

\* C19 witness: an env signal was just handled whose keys and values are those
\* of the snapshot stored before it, and the change events of the session's
\* creation and of two env signals at least have been raised.
C19_Witness ==
    /\ LastOpIs("shellEnvChange")
    /\ active[1] # 0
    /\ lastOp[1].before # Undefined
    /\ lastOp[1].before = integ[active[1]].env
    /\ DOMAIN integ[active[1]].env[1].value = {"A", "B"}
    /\ Len(changeEvents) >= 3

\* C20: a cwd signal whose value is the stored one (the same URI, or absent
\* with absent stored) changes nothing and raises no event; any other value is
\* stored and raises exactly one change event.
C20_CwdDeduplicated ==
    \A cwd \in Cwds :
        LET s == active[1]
            st == cwdChange(Cur, 1, cwd)
        IN s # 0 =>
            IF cwd = integ[s].cwd
            THEN st = Cur
            ELSE /\ st.integ = [integ EXCEPT ![s].cwd = cwd]
                 /\ st.changeEvents = Append(changeEvents, 1)
                 /\ st.events = events /\ st.execs = execs

\* C20 witness: a cwd signal was just handled without changing anything, for a
\* live session whose stored cwd is a URI.
C20_Witness ==
    /\ LastOpIs("cwdChange")
    /\ ~lastOp[1].changed
    /\ active[1] # 0
    /\ integ[active[1]].cwd # Undefined
    /\ Len(changeEvents) >= 2

\* C21: a capability signal whose value is the stored flag changes nothing and
\* raises no event; one whose value differs flips the flag and raises exactly
\* one change event.
C21_FlagEventOnFlip ==
    \A value \in BOOLEAN :
        LET s == active[1]
            st == setHasRichCommandDetectionSignal(Cur, 1, value)
        IN s # 0 =>
            IF value = integ[s].hasRichCommandDetection
            THEN st = Cur
            ELSE /\ st.integ = [integ EXCEPT ![s].hasRichCommandDetection = value]
                 /\ st.changeEvents = Append(changeEvents, 1)
                 /\ st.events = events /\ st.execs = execs

\* C21 witness: a capability signal was just handled without changing
\* anything, for a live session whose flag an earlier signal had set.
C21_Witness ==
    /\ LastOpIs("setHasRichCommandDetection")
    /\ ~lastOp[1].changed
    /\ active[1] # 0
    /\ integ[active[1]].hasRichCommandDetection
    /\ Len(changeEvents) >= 2

\* C22: a shellIntegrationChange for a handle that has a session constructs no
\* session and leaves the directory, every session, every execution, the
\* pending drains and the start and end events as they were.
C22_ChangeIdempotent ==
    \A h \in Handles :
        LET st == shellIntegrationChange(Cur, h)
        IN active[h] # 0 =>
            /\ st.active = active
            /\ st.integ = integ
            /\ st.execs = execs
            /\ st.drains = drains
            /\ st.events = events

\* the change events raised for handle h
ChangeCount(h) == Cardinality({i \in 1..Len(changeEvents) : changeEvents[i] = h})

\* C22 witness: the only session ever constructed for handle 1 has a current
\* execution, and two change events were raised for its handle: the second one
\* by a shellIntegrationChange that found the session.
C22_Witness ==
    /\ active[1] # 0
    /\ Cardinality({s \in 1..Len(integ) : integ[s].handle = 1}) = 1
    /\ integ[active[1]].currentExecution # 0
    /\ integ[active[1]].cwd = Undefined
    /\ ChangeCount(1) = 2

\* what a signal for handle h may not touch: the sessions of other handles,
\* the executions they hold, the drains they await, and the events raised
\* before; and every event it raises is for h
Isolated(h) ==
    /\ \A s \in 1..Len(integ) :
          integ[s].handle # h
              => /\ integ'[s] = integ[s]
                 /\ \A e \in ExecutionsOf(s) : execs'[e] = execs[e]
    /\ \A g \in Handles \ {h} : active'[g] = active[g]
    /\ LET Other(d) == integ[d.integ].handle # h
       IN SelectSeq(drains', Other) = SelectSeq(drains, Other)
    /\ Len(events') >= Len(events)
    /\ SubSeq(events', 1, Len(events)) = events
    /\ \A i \in (Len(events) + 1)..Len(events') : events'[i].terminal = h
    /\ Len(changeEvents') >= Len(changeEvents)
    /\ SubSeq(changeEvents', 1, Len(changeEvents)) = changeEvents
    /\ \A i \in (Len(changeEvents) + 1)..Len(changeEvents') : changeEvents'[i] = h

\* C29: a signal for handle h changes nothing of the sessions of other handles
\* and raises events for h only.
C29_SessionsIsolated ==
    [][\A h \in Handles :
        (\/ StepIs(shellIntegrationChange(Cur, h))
         \/ StepIs(shellExecutionStart(Cur, h, "ls", High, TRUE, Undefined))
         \/ StepIs(shellExecutionEnd(Cur, h, "ls", High, TRUE, Some(0)))
         \/ StepIs(cwdChange(Cur, h, Some("file:///u1"))))
            => Isolated(h)]_vars

\* C29 witness: the drains of two sessions with different handles are pending
\* at once, the later one from an end signal handled while the other session
\* awaited its own; both sessions still hold their executions as current.
C29_Witness ==
    /\ Len(drains) = 2
    /\ integ[drains[1].integ].handle # integ[drains[2].integ].handle
    /\ \A i \in 1..2 :
          /\ integ[drains[i].integ].currentExecution = drains[i].execution
          /\ execs[drains[i].execution].ended
          /\ active[integ[drains[i].integ].handle] = drains[i].integ

\* C23: whether or not the first reader is ever driven, an execution whose end
\* the shell reported eventually has its end event, and every other reader
\* attached before the end eventually sees the end of its sequence.
C23_AbandonedReader ==
    /\ \A e \in 1..AbandonLoad :
          (\E i \in 1..Len(drains) : drains[i].execution = e)
              ~> (EndCount(events, e) >= 1)
    /\ \A r \in 2..AbandonLoad :
          (r <= Len(readers) /\ ~attach[r].ended /\ execs[readers[r].exec].ended)
              ~> (r <= Len(readers) /\ readers[r].done)

\* C23 witness: the first reader was never driven; the execution it is attached
\* to has the end event of the shell's report, and another reader of that
\* execution has seen the end of its sequence.
C23_Witness ==
    /\ Len(readers) >= 2
    /\ readers[1].stream
    /\ readers[1].pos = 0 /\ ~readers[1].done
    /\ \E i \in 1..Len(events) : events[i] = EndEvent(1, readers[1].exec, Some(0))
    /\ \E r \in 2..Len(readers) :
          /\ readers[r].exec = readers[1].exec
          /\ ~attach[r].ended
          /\ readers[r].done

\* C24: once an end event has been raised for an execution, no step delivers a
\* chunk into the sequence of a reader of that execution.
C24_NoDataAfterEnd ==
    [][\A r \in 1..Len(readers) :
          EndCount(events, readers[r].exec) >= 1
              => readers'[r].results = readers[r].results]_vars

\* C24 witness: a reader attached to an execution before its end has been
\* given nothing, its execution has its end event, and a reader of the
\* execution started after it was given a chunk by a later data signal.
C24_Witness ==
    \E r, q \in 1..Len(readers) :
        /\ ~attach[r].ended
        /\ readers[r].results = <<>>
        /\ EndCount(events, readers[r].exec) = 1
        /\ readers[q].exec > readers[r].exec
        /\ active[1] # 0
        /\ integ[active[1]].currentExecution = readers[q].exec
        /\ Len(readers[q].results) = 1

C26_ExitCodePreserved ==
    [][\A e \in 1..Len(execs) :
          (/\ EndCount(events', e) > EndCount(events, e)
           /\ \E i \in 1..Len(drains) : drains[i].execution = e)
              => \E i \in 1..Len(drains) :
                    /\ drains[i].execution = e
                    /\ Last(events') = EndEvent(integ[drains[i].integ].handle, e,
                                                drains[i].exitCode)]_vars

\* execution e is in the pending queue of session s of the session list in
IsPending(in, s, e) ==
    \E i \in 1..Len(in[s].activeExecutions) : in[s].activeExecutions[i] = e

\* execution e is the current or a pending execution of some session of in
InUse(in, e) ==
    \E s \in 1..Len(in) : in[s].currentExecution = e \/ IsPending(in, s, e)

\* C27: after every step the current execution of a session is not in its
\* pending queue and no execution is twice in a pending queue; a current
\* execution never goes back to a pending queue; and an execution that is
\* neither current nor pending any more never becomes current or pending again.
C27_CurrentAtMostOnce ==
    [][/\ \A s \in 1..Len(integ') :
             LET q == integ'[s].activeExecutions
             IN /\ ~IsPending(integ', s, integ'[s].currentExecution)
                /\ \A i, j \in 1..Len(q) : q[i] = q[j] => i = j
       /\ \A e \in 1..Len(execs) :
             /\ ~InUse(integ, e) => ~InUse(integ', e)
             /\ \A s \in 1..Len(integ) :
                   integ[s].currentExecution = e
                       => \A t \in 1..Len(integ') : ~IsPending(integ', t, e)]_vars

\* C27 witness: an execution submitted with executeCommand has been pending and
\* current and has its end event, a later one is current and the pending queue
\* still holds an execution.
C27_Witness ==
    \E s \in 1..Len(integ), e \in 1..Len(execs) :
        /\ execs[e].requested
        /\ EndCount(events, e) = 1
        /\ ~InUse(integ, e)
        /\ integ[s].currentExecution > e
        /\ execs[integ[s].currentExecution].requested
        /\ Len(integ[s].activeExecutions) > 0

\* the positions of the start events for execution e among the first n events of ev
StartsBefore(ev, n, e) ==
    {j \in 1..n : ev[j].type = "start" /\ ev[j].execution = e}

\* how many start events the log ev holds
StartCount(ev) == Cardinality({j \in 1..Len(ev) : ev[j].type = "start"})

\* C28: every start signal handled by a live session raises exactly one start
\* event, for the execution that became current; after every step each end
\* event in the log has exactly one start event for the same execution before
\* it; and no execution in a pending queue has an end event.
C28_StartPrecedesEnd ==
    [][/\ \A value \in Texts, confidence \in Confidences :
             StepIs(shellExecutionStart(Cur, 1, value, confidence, TRUE, Undefined))
                 => /\ active'[1] # 0
                    /\ StartCount(events') = StartCount(events) + 1
                    /\ Last(events')
                          = StartEvent(1, integ'[active'[1]].currentExecution)
       /\ \A i \in 1..Len(events') :
             events'[i].type = "end"
                 => Cardinality(StartsBefore(events', i - 1, events'[i].execution)) = 1
       /\ \A s \in 1..Len(integ'), e \in 1..Len(execs') :
             IsPending(integ', s, e) => EndCount(events', e) = 0]_vars

\* C28 witness: one execution has its start event and then the end event of an
\* end signal, a later one its start event and then the end event of a forced
\* end, a third one is current with its start event last in the log, and the
\* pending queue holds an execution with no event at all.
C28_Witness ==
    /\ active[1] # 0
    /\ Len(integ[active[1]].activeExecutions) > 0
    /\ Len(events) = 5
    /\ \E e1, e2, e3 \in 1..Len(execs) :
          /\ events = <<StartEvent(1, e1), EndEvent(1, e1, Some(0)),
                        StartEvent(1, e2), EndEvent(1, e2, Undefined),
                        StartEvent(1, e3)>>
          /\ integ[active[1]].currentExecution = e3
    /\ \A i \in 1..Len(events) :
          ~IsPending(integ, active[1], events[i].execution)

====
